---- MODULE Spec2Model ----
(***************************************************************************)
(* Model of the rolling price store (dailyPrices.py and its copy           *)
(* recentIPOTickersAndPrices.py) and of the filing/reference merge         *)
(* (DailyScriptPuller.py).                                                 *)
(*                                                                         *)
(* Prices are integers (a fixed money unit); the CSV file and the pandas   *)
(* DataFrame are kept apart: a blank CSV cell is read as NaN, and both NaN *)
(* and the empty string '' are written as a blank cell.                    *)
(***************************************************************************)
EXTENDS Integers, Sequences, FiniteSets, TLC

VARIABLES
    csv,        \* the rolling price table on disk: [exists, rows]
    pre,        \* the table on disk before the last store operation
    op,         \* the last store operation and how it ended
    given,      \* the ticker_prices dict of the last operation (ordered pairs)
    ops,        \* number of store operations performed so far
    updater,    \* which updater runs: DailyPriceUpdater or RecentIPOPriceUpdater
    pc,         \* the stage run_daily_update is about to execute
    existing_tickers_before,    \* local of run_daily_update
    new_tickers,                \* local of run_daily_update
    new_ticker_prices,          \* local of run_daily_update
    log,        \* per finished run: what it appended and what it rolled
    rolling_file,       \* workingRolling.csv, the merged table on disk
    stage,              \* the stage run_daily_pipeline is about to execute
    sec_filtered_df,    \* local of run_daily_pipeline
    yahoo_df,           \* local of run_daily_pipeline
    final_df,           \* local of run_daily_pipeline
    outcome,            \* how the last run of run_daily_pipeline ended
    cycles              \* number of finished runs of run_daily_pipeline

storeVars == <<csv, pre, op, given, ops>>
runVars == <<updater, pc, existing_tickers_before, new_tickers,
             new_ticker_prices, log>>
mergeVars == <<rolling_file, stage, sec_filtered_df, yahoo_df, final_df,
               outcome, cycles>>
vars == <<storeVars, runVars, mergeVars>>

-----------------------------------------------------------------------------
(* Bounds of the model *)

Tickers == {"AAA", "BBB"}
Prices  == {0, 25}
MaxOps  == 3
MaxRows == 3
MaxHistoryOps == 8
MaxRuns == 2
MaxCycles == 2
MaxTableRows == 3

\* get_ticker_price returns None
NonePrice == -1

-----------------------------------------------------------------------------
(* Cells: DataFrame values and CSV text *)

NumSlots == 31

Num(n)   == [kind |-> "num", v |-> n]
NaN      == [kind |-> "nan", v |-> 0]
EmptyStr == [kind |-> "str", v |-> 0]
Blank    == [kind |-> "blank", v |-> 0]

\* pd.read_csv: a blank field is parsed as NaN, a number as a float
ReadCell(c) == IF c = Blank THEN NaN ELSE c

\* DataFrame.to_csv: NaN and '' are both written as a blank field
WriteCell(c) == IF c = NaN \/ c = EmptyStr THEN Blank ELSE c

ReadRow(r) ==
    [ticker      |-> r.ticker,
     lag         |-> [k \in 1..NumSlots |-> ReadCell(r.lag[k])],
     Today_price |-> ReadCell(r.Today_price),
     Day_move    |-> ReadCell(r.Day_move),
     Week_move   |-> ReadCell(r.Week_move),
     Month_move  |-> ReadCell(r.Month_move)]

WriteRow(r) ==
    [ticker      |-> r.ticker,
     lag         |-> [k \in 1..NumSlots |-> WriteCell(r.lag[k])],
     Today_price |-> WriteCell(r.Today_price),
     Day_move    |-> WriteCell(r.Day_move),
     Week_move   |-> WriteCell(r.Week_move),
     Month_move  |-> WriteCell(r.Month_move)]

read_csv(file) == [i \in 1..Len(file.rows) |-> ReadRow(file.rows[i])]

to_csv(df) == [exists |-> TRUE, rows |-> [i \in 1..Len(df) |-> WriteRow(df[i])]]

\* os.path.exists(path) and os.path.getsize(path) > 0
HasFile(file) == file.exists

NoFile == [exists |-> FALSE, rows |-> <<>>]

-----------------------------------------------------------------------------
(* update_csv_with_new_tickers *)

\* variant: the first price is also stored as 1DaysAgo_price
RowDataSeeded(ticker, price) ==
    [ticker      |-> ticker,
     lag         |-> [k \in 1..NumSlots |-> IF k = 1 THEN Num(price) ELSE EmptyStr],
     Today_price |-> Num(price),
     Day_move    |-> Num(0),
     Week_move   |-> Num(0),
     Month_move  |-> Num(0)]

\* the row_data dict built for one (ticker, price)
RowData(ticker, price) ==
    [ticker      |-> ticker,
     lag         |-> [k \in 1..NumSlots |-> EmptyStr],
     Today_price |-> Num(price),
     Day_move    |-> Num(0),
     Week_move   |-> Num(0),
     Month_move  |-> Num(0)]

\* variant: the new rows replace the table instead of being concatenated to it
update_csv_overwriting(file, ticker_prices) ==
    to_csv([i \in 1..Len(ticker_prices) |->
               RowData(ticker_prices[i][1], ticker_prices[i][2])])

\* ticker_prices is a dict: a sequence of <<ticker, price>> in insertion order
update_csv_with_new_tickers(file, ticker_prices) ==
    LET new_rows    == [i \in 1..Len(ticker_prices) |->
                          RowData(ticker_prices[i][1], ticker_prices[i][2])]
        df_existing == IF HasFile(file) THEN read_csv(file) ELSE <<>>
    IN  to_csv(df_existing \o new_rows)

-----------------------------------------------------------------------------
(* roll_prices_for_existing_tickers *)

\* pd.notna(x) and x != 0
HasBaseline(c) == c # NaN /\ c # Num(0)

\* variant: the zero test on the previous price is left out
DayMoveNoZeroTest(current_price, row) ==
    IF row.Today_price # NaN
    THEN Num(current_price - row.Today_price.v) ELSE Num(0)

DayMove(current_price, row) ==
    IF HasBaseline(row.Today_price)
    THEN Num(current_price - row.Today_price.v) ELSE Num(0)

\* variant: a 7-day price of 0 is a baseline like any other
WeekMoveNoZeroTest(current_price, row) ==
    IF row.lag[7] # NaN
    THEN Num(current_price - row.lag[7].v) ELSE Num(0)

WeekMove(current_price, row) ==
    IF HasBaseline(row.lag[7])
    THEN Num(current_price - row.lag[7].v) ELSE Num(0)

MonthMove(current_price, row) ==
    IF HasBaseline(row.lag[30])
    THEN Num(current_price - row.lag[30].v) ELSE Num(0)

\* variant: the slots are shifted in increasing order, in place, so that every
\* slot ends up holding the outgoing Today_price
RolledRowInPlace(row, current_price) ==
    [ticker      |-> row.ticker,
     lag         |-> [k \in 1..NumSlots |-> row.Today_price],
     Today_price |-> Num(current_price),
     Day_move    |-> DayMove(current_price, row),
     Week_move   |-> WeekMove(current_price, row),
     Month_move  |-> MonthMove(current_price, row)]

\* the body of the loop for a row whose ticker is in ticker_prices
RolledRow(row, current_price) ==
    [ticker      |-> row.ticker,
     lag         |-> [k \in 1..NumSlots |->
                        IF k = 1 THEN row.Today_price ELSE row.lag[k - 1]],
     Today_price |-> Num(current_price),
     Day_move    |-> DayMove(current_price, row),
     Week_move   |-> WeekMove(current_price, row),
     Month_move  |-> MonthMove(current_price, row)]

-----------------------------------------------------------------------------
(* Python dicts as sequences of <<key, value>> in insertion order *)

DictKeys(d) == {d[i][1] : i \in 1..Len(d)}

DictGet(d, k) == d[CHOOSE i \in 1..Len(d) : d[i][1] = k][2]

\* d[k] = v: a key already present keeps its position
DictSet(d, k, v) ==
    IF k \in DictKeys(d)
    THEN [i \in 1..Len(d) |-> IF d[i][1] = k THEN <<k, v>> ELSE d[i]]
    ELSE Append(d, <<k, v>>)

\* every dict with distinct keys from Tickers and values from Prices
TickerPriceDicts ==
    {d \in UNION {[1..n -> Tickers \X Prices] : n \in 0..Cardinality(Tickers)} :
        \A i, j \in 1..Len(d) : i # j => d[i][1] # d[j][1]}

\* what the price source answers for each ticker of one batch
Answers == [Tickers -> Prices \cup {NonePrice}]

-----------------------------------------------------------------------------
(* fetch_prices_for_tickers *)

RECURSIVE FetchLoop(_, _, _)
FetchLoop(tickers, answer, prices) ==
    IF tickers = <<>> THEN prices
    ELSE LET ticker == Head(tickers)
             price  == answer[ticker]
         IN  FetchLoop(Tail(tickers), answer,
                       IF price # NonePrice
                       THEN DictSet(prices, ticker, price) ELSE prices)

fetch_prices_for_tickers(tickers, answer) == FetchLoop(tickers, answer, <<>>)

-----------------------------------------------------------------------------
(* roll_prices_for_existing_tickers, on a table that exists *)

TickerColumn(df) == [i \in 1..Len(df) |-> df[i].ticker]

\* variant: a row without a fresh price is rolled with its own Today_price
RolledFrameCarryForward(df, ticker_prices) ==
    [i \in 1..Len(df) |->
        IF df[i].ticker \in DictKeys(ticker_prices)
        THEN RolledRow(df[i], DictGet(ticker_prices, df[i].ticker))
        ELSE RolledRow(df[i], df[i].Today_price.v)]

\* variant: a row without a fresh price is shifted too and its Today_price is
\* left empty
RolledFrameGapOnFailure(df, ticker_prices) ==
    [i \in 1..Len(df) |->
        IF df[i].ticker \in DictKeys(ticker_prices)
        THEN RolledRow(df[i], DictGet(ticker_prices, df[i].ticker))
        ELSE [RolledRow(df[i], 0) EXCEPT !.Today_price = NaN]]

RolledFrame(df, ticker_prices) ==
    [i \in 1..Len(df) |->
        IF df[i].ticker \in DictKeys(ticker_prices)
        THEN RolledRow(df[i], DictGet(ticker_prices, df[i].ticker))
        ELSE df[i]]

roll_prices_for_existing_tickers(file, answer) ==
    IF ~HasFile(file) THEN file
    ELSE LET df            == read_csv(file)
             ticker_prices == fetch_prices_for_tickers(TickerColumn(df), answer)
         IN  to_csv(RolledFrame(df, ticker_prices))

-----------------------------------------------------------------------------------------------------------------------------------------------------
(* The store operations called directly *)

InitStore ==
    /\ csv = NoFile
    /\ pre = NoFile
    /\ op = "none"
    /\ given = <<>>
    /\ ops = 0

InitRun ==
    /\ pc = "idle"
    /\ existing_tickers_before = <<>>
    /\ new_tickers = <<>>
    /\ new_ticker_prices = <<>>
    /\ log = <<>>

EmptyFrame == [cols |-> {}, rows |-> <<>>]

InitMerge ==
    /\ rolling_file = [exists |-> FALSE, cols |-> {}, rows |-> <<>>]
    /\ stage = "idle"
    /\ sec_filtered_df = EmptyFrame
    /\ yahoo_df = EmptyFrame
    /\ final_df = EmptyFrame
    /\ outcome = "none"
    /\ cycles = 0

Init == InitStore /\ InitRun /\ InitMerge /\ updater = "none"

\* update_csv_with_new_tickers(ticker_prices); pd.read_csv may raise
AppendCall(dicts, bound) ==
    /\ ops < bound
    /\ \E ticker_prices \in dicts, read_ok \in BOOLEAN :
        /\ read_ok \/ HasFile(csv)
        /\ Len(csv.rows) + Len(ticker_prices) <= MaxRows
        /\ pre' = csv
        /\ ops' = ops + 1
        /\ UNCHANGED <<runVars, mergeVars>>
        /\ IF read_ok
           THEN /\ csv' = update_csv_with_new_tickers(csv, ticker_prices)
                /\ given' = ticker_prices
                /\ op' = "append"
           ELSE /\ csv' = csv
                /\ given' = <<>>
                /\ op' = "append_raised"

\* roll_prices_for_existing_tickers(); pd.read_csv may raise
RollCall(answers, bound) ==
    /\ ops < bound
    /\ \E answer \in answers, read_ok \in BOOLEAN :
        /\ read_ok \/ HasFile(csv)
        /\ pre' = csv
        /\ ops' = ops + 1
        /\ UNCHANGED <<runVars, mergeVars>>
        /\ IF ~HasFile(csv)
           THEN /\ csv' = csv
                /\ given' = <<>>
                /\ op' = "roll_no_file"
           ELSE IF read_ok
           THEN /\ csv' = roll_prices_for_existing_tickers(csv, answer)
                /\ given' = fetch_prices_for_tickers(
                                TickerColumn(read_csv(csv)), answer)
                /\ op' = "roll"
           ELSE /\ csv' = csv
                /\ given' = <<>>
                /\ op' = "roll_raised"

StoreAppend == AppendCall(TickerPriceDicts, MaxOps)

StoreRoll == RollCall(Answers, MaxOps)

Next == StoreAppend \/ StoreRoll

Spec == Init /\ [][Next]_vars

-----------------------------------------------------------------------------
(* One ticker appended once and then rolled day after day *)

HistoryPrices == {0, 25, 26}

HistoryDicts == {<<<<"AAA", p>>>> : p \in HistoryPrices}

HistoryAnswers ==
    {a \in [Tickers -> HistoryPrices \cup {NonePrice}] : a["BBB"] = NonePrice}

HistoryAppend == ~HasFile(csv) /\ AppendCall(HistoryDicts, MaxHistoryOps)

HistoryRoll == HasFile(csv) /\ RollCall(HistoryAnswers, MaxHistoryOps)

NextHistory == HistoryAppend \/ HistoryRoll

SpecHistory == Init /\ [][NextHistory]_vars

-----------------------------------------------------------------------------------------------------------------------------------------------------
(* run_daily_update, stage by stage *)

\* load_existing_tickers: any exception is swallowed and gives []
load_existing_tickers(file, read_ok) ==
    IF HasFile(file) /\ read_ok THEN TickerColumn(read_csv(file)) ELSE <<>>

SeqSet(list) == {list[i] : i \in 1..Len(list)}

\* [ticker for ticker in all_tickers if ticker not in existing_tickers]
RECURSIVE NotIn(_, _)
NotIn(all_tickers, existing_tickers) ==
    IF all_tickers = <<>> THEN <<>>
    ELSE IF Head(all_tickers) \in existing_tickers
         THEN NotIn(Tail(all_tickers), existing_tickers)
         ELSE <<Head(all_tickers)>> \o NotIn(Tail(all_tickers), existing_tickers)

\* the seen / unique_new_tickers loop: first occurrences, in order
RECURSIVE UniqueLoop(_, _)
UniqueLoop(list, seen) ==
    IF list = <<>> THEN <<>>
    ELSE IF Head(list) \in seen
         THEN UniqueLoop(Tail(list), seen)
         ELSE <<Head(list)>> \o UniqueLoop(Tail(list), seen \cup {Head(list)})

\* get_new_tickers_from_working_rolling / get_tickers_from_recent_ipo:
\* all_tickers is the ticker (Symbol) column of the source feed
get_new_tickers(file, all_tickers, feed_ok, read_ok) ==
    IF ~feed_ok THEN <<>>
    ELSE UniqueLoop(NotIn(all_tickers,
                          SeqSet(load_existing_tickers(file, read_ok))), {})

\* get_missing_tickers_from_upcoming: an upcoming row is <<Symbol, Scraped Date>>
\* with the date "fresh" (at most 7 days old), "stale", "unparsable" (ValueError)
\* or "nan" (a float: strptime raises TypeError, caught by the outer handler)
RECURSIVE MissingLoop(_, _, _)
MissingLoop(rest, df_upcoming, existing_tickers) ==
    IF rest = <<>> THEN <<>>
    ELSE LET ticker == Head(rest)[1]
             first  == df_upcoming[CHOOSE i \in 1..Len(df_upcoming) :
                          /\ df_upcoming[i][1] = ticker
                          /\ \A j \in 1..(i - 1) : df_upcoming[j][1] # ticker]
             more   == MissingLoop(Tail(rest), df_upcoming, existing_tickers)
         IN  IF ticker \notin existing_tickers /\ first[2] \in {"fresh", "unparsable"}
             THEN <<ticker>> \o more ELSE more

get_missing_tickers_from_upcoming(file, df_upcoming, feed_ok, read_ok) ==
    LET existing_tickers == SeqSet(load_existing_tickers(file, read_ok))
        raises == \E i \in 1..Len(df_upcoming) :
                      /\ df_upcoming[i][1] \notin existing_tickers
                      /\ df_upcoming[i][2] = "nan"
                      /\ \A j \in 1..(i - 1) :
                             df_upcoming[j][1] # df_upcoming[i][1]
    IN  IF ~feed_ok \/ raises THEN <<>>
        ELSE MissingLoop(df_upcoming, df_upcoming, existing_tickers)

\* list(set(xs)): the distinct elements in some order
Orderings(set) ==
    {list \in [1..Cardinality(set) -> set] : SeqSet(list) = set}

\* the ticker column of the source feed, repeated tickers included
Feeds == UNION {[1..n -> Tickers] : n \in 0..Cardinality(Tickers)}

UpcomingFeeds ==
    UNION {[1..n -> Tickers \X {"fresh", "stale", "unparsable", "nan"}] : n \in 0..1}

\* the price the source quotes during run number day, in half dollars (12.50 in
\* the first run, 13.00 in the second); a lookup gives it or None
Quote(day) == 24 + day

RunAnswers == [Tickers -> {NonePrice, Quote(Len(log) + 1)}]

InitRuns ==
    /\ InitStore
    /\ InitRun
    /\ InitMerge
    /\ updater \in {"daily", "recent"}

\* existing_tickers_before = self.load_existing_tickers()
LoadExisting ==
    /\ pc = "idle"
    /\ Len(log) < MaxRuns
    /\ \E read_ok \in BOOLEAN :
        existing_tickers_before' = load_existing_tickers(csv, read_ok)
    /\ pc' = "discover"
    /\ new_tickers' = <<>>
    /\ new_ticker_prices' = <<>>
    /\ UNCHANGED <<mergeVars, storeVars, updater, log>>

AfterDiscover(found) ==
    /\ new_tickers' = found
    /\ pc' = IF found # <<>> THEN "fetch_new" ELSE "roll"
    /\ UNCHANGED <<mergeVars, storeVars, updater, existing_tickers_before,
                   new_ticker_prices, log>>

\* DailyPriceUpdater: new_tickers = self.get_new_tickers_from_working_rolling()
DiscoverDaily ==
    /\ pc = "discover"
    /\ updater = "daily"
    /\ \E all_tickers \in Feeds, feed_ok, read_ok \in BOOLEAN :
        AfterDiscover(get_new_tickers(csv, all_tickers, feed_ok, read_ok))

\* RecentIPOPriceUpdater: new_tickers = self.get_tickers_from_recent_ipo()
DiscoverRecent ==
    /\ pc = "discover"
    /\ updater = "recent"
    /\ \E all_tickers \in Feeds, feed_ok, read_ok \in BOOLEAN :
        new_tickers' = get_new_tickers(csv, all_tickers, feed_ok, read_ok)
    /\ pc' = "missing"
    /\ UNCHANGED <<mergeVars, storeVars, updater, existing_tickers_before,
                   new_ticker_prices, log>>

\* RecentIPOPriceUpdater: the missing tickers of the upcoming feed are added
\* and the list is rebuilt by list(set(new_tickers))
DiscoverMissing ==
    /\ pc = "missing"
    /\ \E df_upcoming \in UpcomingFeeds, feed_ok, read_ok \in BOOLEAN :
        LET missing == get_missing_tickers_from_upcoming(
                           csv, df_upcoming, feed_ok, read_ok)
        IN  IF missing # <<>>
            THEN \E list \in Orderings(SeqSet(new_tickers \o missing)) :
                     AfterDiscover(list)
            ELSE AfterDiscover(new_tickers)

\* new_ticker_prices = self.fetch_prices_for_tickers(new_tickers)
FetchNewPrices ==
    /\ pc = "fetch_new"
    /\ \E answer \in RunAnswers :
        /\ new_ticker_prices' = fetch_prices_for_tickers(new_tickers, answer)
        /\ pc' = IF new_ticker_prices' # <<>> THEN "append" ELSE "roll"
    /\ UNCHANGED <<mergeVars, storeVars, updater, existing_tickers_before, new_tickers, log>>

\* the run is over: what it appended, what it rolled, how the roll stage ended
EndRun(appended, rolled, ending) ==
    /\ pc' = "idle"
    /\ log' = Append(log, [appended |-> appended, rolled |-> rolled,
                           ending |-> ending])

\* self.update_csv_with_new_tickers(new_ticker_prices); a failed read raises
\* and the exception leaves run_daily_update
AppendNew ==
    /\ pc = "append"
    /\ Len(csv.rows) + Len(new_ticker_prices) <= MaxRows
    /\ pre' = csv
    /\ ops' = ops
    /\ \E read_ok \in BOOLEAN :
        /\ read_ok \/ HasFile(csv)
        /\ IF read_ok
           THEN /\ csv' = update_csv_with_new_tickers(csv, new_ticker_prices)
                /\ given' = new_ticker_prices
                /\ op' = "append"
                /\ pc' = "roll"
                /\ log' = log
           ELSE /\ csv' = csv
                /\ given' = <<>>
                /\ op' = "append_raised"
                /\ EndRun(<<>>, <<>>, "append_raised")
    /\ UNCHANGED <<mergeVars, updater, existing_tickers_before, new_tickers,
                   new_ticker_prices>>

\* variant: the roll writes the rows it has shifted before the exception
\* leaves it
roll_raising_after_write(file, answer) ==
    roll_prices_for_existing_tickers(file, answer)

\* the file a roll leaves when an exception leaves it, from read_csv or from a
\* price lookup: the frame is shifted in memory and the only to_csv is the
\* last statement of the try block, so nothing has been written
roll_raising(file, answer) == file

\* if existing_tickers_before: self.roll_prices_for_existing_tickers()
RollExisting ==
    /\ pc = "roll"
    /\ existing_tickers_before # <<>>
    /\ pre' = csv
    /\ ops' = ops
    /\ \E answer \in RunAnswers, read_ok, fetch_ok \in BOOLEAN :
        /\ read_ok \/ HasFile(csv)
        /\ IF ~HasFile(csv)
           THEN /\ csv' = csv
                /\ given' = <<>>
                /\ op' = "roll_no_file"
                /\ EndRun(new_ticker_prices, <<>>, "roll_no_file")
           ELSE IF read_ok /\ fetch_ok
           THEN /\ csv' = roll_prices_for_existing_tickers(csv, answer)
                /\ given' = fetch_prices_for_tickers(
                                TickerColumn(read_csv(csv)), answer)
                /\ op' = "roll"
                /\ EndRun(new_ticker_prices, given', "rolled")
           ELSE /\ csv' = IF read_ok THEN roll_raising(csv, answer) ELSE csv
                /\ given' = <<>>
                /\ op' = "roll_raised"
                /\ EndRun(new_ticker_prices, <<>>, "roll_raised")
    /\ UNCHANGED <<mergeVars, updater, existing_tickers_before, new_tickers,
                   new_ticker_prices>>

\* existing_tickers_before is empty: the roll is skipped
SkipRoll ==
    /\ pc = "roll"
    /\ existing_tickers_before = <<>>
    /\ EndRun(new_ticker_prices, <<>>, "roll_skipped")
    /\ UNCHANGED <<mergeVars, storeVars, updater, existing_tickers_before, new_tickers,
                   new_ticker_prices>>

NextRuns ==
    \/ LoadExisting
    \/ DiscoverDaily
    \/ DiscoverRecent
    \/ DiscoverMissing
    \/ FetchNewPrices
    \/ AppendNew
    \/ RollExisting
    \/ SkipRoll

SpecRuns == InitRuns /\ [][NextRuns]_vars

-----------------------------------------------------------------------------
(* Run after run of DailyPriceUpdater while one ticker stays in the feed *)

\* the ticker column of workingRolling.csv, the same in every run
SourceFeed == <<"AAA">>

FeedAnswers == {a \in Answers : a["BBB"] = NonePrice}

\* run_daily_update from its first statement to its last, or to the exception
\* that leaves it; the four reads of the store may each fail
FeedRun ==
    /\ ops < MaxOps
    /\ \E answer_new, answer_roll \in FeedAnswers,
          load_ok, discover_ok, append_ok, roll_ok \in BOOLEAN :
          LET before == load_existing_tickers(csv, load_ok)
              found == get_new_tickers(csv, SourceFeed, TRUE, discover_ok)
              priced == IF found # <<>>
                        THEN fetch_prices_for_tickers(found, answer_new)
                        ELSE <<>>
              append_raises == priced # <<>> /\ HasFile(csv) /\ ~append_ok
              appended == IF append_raises THEN <<>> ELSE priced
              after_append == IF appended # <<>>
                              THEN update_csv_with_new_tickers(csv, appended)
                              ELSE csv
              rolls == ~append_raises /\ before # <<>>
          IN  /\ Len(csv.rows) + Len(priced) <= MaxRows
              /\ csv' = IF rolls /\ roll_ok
                        THEN roll_prices_for_existing_tickers(after_append,
                                                              answer_roll)
                        ELSE after_append
              /\ log' = Append(log, [discovered |-> found,
                                     priced     |-> priced,
                                     appended   |-> appended])
              /\ given' = appended
    /\ pre' = csv
    /\ op' = "run"
    /\ ops' = ops + 1
    /\ UNCHANGED <<mergeVars, updater, pc, existing_tickers_before, new_tickers,
                   new_ticker_prices>>

NextFeed == FeedRun

SpecFeed == Init /\ [][NextFeed]_vars

-----------------------------------------------------------------------------
(* DailyScriptPuller: the merged table workingRolling.csv *)

\* NaN in a column of strings
NaNStr == "<NaN>"

\* The tickers field of a filing: a Python list of {'ticker': t} dicts ("list"),
\* a string holding the JSON of such a list ("json"), a string holding its
\* Python literal ("literal", what to_csv writes for a list), a string that is
\* neither ("garbage"), or a missing value ("nan"); also a Python list of
\* plain strings ("strlist"), a string holding the JSON of one string
\* ("json_string", its items are the characters of that string) and a string
\* holding the JSON of a number ("json_number").
TickersField(enc, items) == [enc |-> enc, items |-> items]

NoTickers == TickersField("nan", <<>>)

\* A row of a DataFrame; a column the frame does not have holds NaN
MergedRow(ticker, tickers, filedAt, name, polygon_list_date) ==
    [ticker |-> ticker, tickers |-> tickers, filedAt |-> filedAt,
     name |-> name, polygon_list_date |-> polygon_list_date]

Frame(cols, rows) == [cols |-> cols, rows |-> rows]

\* DataFrame.empty
IsEmpty(df) == df.cols = {} \/ df.rows = <<>>

\* the columns of the frame built from the filing records
SecColumns == {"tickers", "filedAt"}

\* the columns of the frame built from get_ticker_info
YahooColumns == {"ticker", "name"}

\* str(ticker_value).strip() not in ['[]', 'nan', 'None', '']
IsValid(tickers) ==
    /\ tickers.enc # "nan"
    /\ tickers.enc \in {"list", "strlist", "json", "literal"} => tickers.items # <<>>

\* the value is a list, or json.loads or ast.literal_eval gives a list
IsList(tickers) == tickers.enc \in {"list", "strlist", "json", "literal"}

\* the value is a list, or json.loads or ast.literal_eval gives a value
Decodes(tickers) == IsList(tickers) \/ tickers.enc \in {"json_string", "json_number"}

\* ticker_list[0] can be taken: of a list and of a string, not of a number
\* (TypeError)
Subscriptable(tickers) == IsList(tickers) \/ tickers.enc = "json_string"

\* the element appended to sec_tickers for one filing row: the first element
\* of a list (its 'ticker' value when it is a dict), the first character of a
\* string
FirstTicker(tickers) ==
    IF /\ IsValid(tickers)
       /\ Decodes(tickers)
       /\ Subscriptable(tickers)
       /\ tickers.items # <<>>
    THEN tickers.items[1] ELSE ""

\* sec_df['tickers'].notna() & (sec_df['tickers'] != '[]'): a list is never
\* equal to the string '[]', a string may be
filter_sec_data_by_ticker(sec_df) ==
    LET Keep(row) == /\ row.tickers.enc # "nan"
                     /\ ~(row.tickers.enc \in {"json", "literal"}
                          /\ row.tickers.items = <<>>)
    IN  IF IsEmpty(sec_df) THEN EmptyFrame
        ELSE Frame(sec_df.cols, SelectSeq(sec_df.rows, Keep))

\* lexicographic order of the ticker strings, NaN last
TickerOrder == <<"", "A", "AAA", "BBB", NaNStr>>

TickerRank(t) == CHOOSE i \in 1..Len(TickerOrder) : TickerOrder[i] = t

\* a stable sort of the rows by their integer keys, keys[i] the key of rows[i]
SortedBy(rows, keys) ==
    LET n == Len(rows)
        Pos(i) == 1 + Cardinality({j \in 1..n :
                      \/ keys[j] < keys[i]
                      \/ keys[j] = keys[i] /\ j < i})
    IN  [p \in 1..n |-> rows[CHOOSE i \in 1..n : Pos(i) = p]]

\* get_polygon_finance_data: the tickers of every decodable valid row, and one
\* row for each of them that get_ticker_info has data for
FinanceTickers(sec_df) ==
    UNION {SeqSet(sec_df.rows[i].tickers.items) :
              i \in {j \in 1..Len(sec_df.rows) :
                        /\ IsValid(sec_df.rows[j].tickers)
                        /\ Decodes(sec_df.rows[j].tickers)
                        /\ Subscriptable(sec_df.rows[j].tickers)}}

get_polygon_finance_data(sec_df, known) ==
    LET found == FinanceTickers(sec_df) \cap known
        order == SelectSeq(TickerOrder, LAMBDA t : t \in found)
    IN  IF IsEmpty(sec_df) \/ found = {} THEN EmptyFrame
        ELSE Frame(YahooColumns,
                   [i \in 1..Len(order) |->
                       MergedRow(order[i], NoTickers, NaN, "Co", NaN)])

\* drop_duplicates(subset=['ticker'], keep='first'); NaN equals NaN here
drop_duplicates(rows) ==
    LET Kept == {i \in 1..Len(rows) :
                    \A j \in 1..(i - 1) : rows[j].ticker # rows[i].ticker}
        idx  == SelectSeq([i \in 1..Len(rows) |-> i], LAMBDA i : i \in Kept)
    IN  [p \in 1..Len(idx) |-> rows[idx[p]]]

\* pd.merge(sec_df_copy, yahoo_df, on='ticker', how='outer'): the keys in
\* lexicographic order, the left rows of one key in their order
OuterMerge(left, right) ==
    LET RightOf(t) == {j \in 1..Len(right) : right[j].ticker = t}
        Joined(row) ==
            IF RightOf(row.ticker) = {} THEN row
            ELSE [row EXCEPT !.name =
                     right[CHOOSE j \in RightOf(row.ticker) : TRUE].name]
        LeftKeys == {left[i].ticker : i \in 1..Len(left)}
        both == [i \in 1..Len(left) |-> Joined(left[i])]
                \o SelectSeq(right, LAMBDA r : r.ticker \notin LeftKeys)
    IN  SortedBy(both, [i \in 1..Len(both) |-> TickerRank(both[i].ticker)])

combine_sec_and_yahoo_data(sec_df, yahoo) ==
    IF IsEmpty(sec_df) /\ IsEmpty(yahoo) THEN EmptyFrame
    ELSE IF IsEmpty(sec_df) THEN yahoo
    ELSE IF IsEmpty(yahoo) THEN sec_df
    ELSE LET sec_df_copy ==
                 [i \in 1..Len(sec_df.rows) |->
                     [sec_df.rows[i] EXCEPT
                         !.ticker = FirstTicker(sec_df.rows[i].tickers)]]
         IN  Frame(sec_df.cols \cup {"ticker"} \cup yahoo.cols,
                   drop_duplicates(OuterMerge(sec_df_copy, yahoo.rows)))

\* the list date the reference source reports for a ticker
ListDate(t) == IF t = "AAA" THEN 1 ELSE 2

\* get_polygon_data, for a frame that has a ticker column; listed are the
\* tickers the reference source answers for
get_polygon_data(combined_df, listed) ==
    LET valid == {combined_df.rows[i].ticker : i \in 1..Len(combined_df.rows)}
                    \ {"", NaNStr}
    IN  IF IsEmpty(combined_df) \/ valid \cap listed = {} THEN combined_df
        ELSE Frame(combined_df.cols \cup {"polygon_list_date"},
                   [i \in 1..Len(combined_df.rows) |->
                       IF combined_df.rows[i].ticker \in listed
                       THEN [combined_df.rows[i] EXCEPT
                                !.polygon_list_date =
                                    Num(ListDate(combined_df.rows[i].ticker))]
                       ELSE combined_df.rows[i]])

\* pd.read_csv of the merged table: blank fields become NaN
ReadMergedRow(r) ==
    MergedRow(IF r.ticker = "" THEN NaNStr ELSE r.ticker,
              r.tickers,
              ReadCell(r.filedAt),
              IF r.name = "" THEN NaNStr ELSE r.name,
              ReadCell(r.polygon_list_date))

\* to_csv of the merged table: NaN and '' are written blank, a list is written
\* as the string of its Python literal
WriteMergedRow(r) ==
    MergedRow(IF r.ticker = NaNStr THEN "" ELSE r.ticker,
              IF r.tickers.enc = "list"
              THEN TickersField("literal", r.tickers.items) ELSE r.tickers,
              WriteCell(r.filedAt),
              IF r.name = NaNStr THEN "" ELSE r.name,
              WriteCell(r.polygon_list_date))

load_existing_rolling_data(file, read_ok) ==
    IF file.exists /\ read_ok
    THEN Frame(file.cols, [i \in 1..Len(file.rows) |-> ReadMergedRow(file.rows[i])])
    ELSE EmptyFrame

\* sort_values(['ticker', 'filedAt'], ascending=[True, False]), NaN last
TickerFiledAtKey(r) ==
    TickerRank(r.ticker) * 1000 + (IF r.filedAt = NaN THEN 999 ELSE 500 - r.filedAt.v)

\* sort_values('polygon_list_date', ascending=False, na_position='last')
ListDateKey(r) ==
    IF r.polygon_list_date = NaN THEN 999 ELSE 500 - r.polygon_list_date.v

SortedByListDate(df) ==
    IF "polygon_list_date" \in df.cols
    THEN Frame(df.cols,
               SortedBy(df.rows, [i \in 1..Len(df.rows) |-> ListDateKey(df.rows[i])]))
    ELSE df

\* variant: the rows of the new data replace the rows of the tickers already
\* in the table
update_rolling_data_refreshing(new_data, file, read_ok) ==
    LET existing_df == load_existing_rolling_data(file, read_ok)
    IN  IF IsEmpty(new_data) THEN existing_df
        ELSE IF IsEmpty(existing_df) THEN new_data
        ELSE SortedByListDate(
                 Frame(existing_df.cols \cup new_data.cols,
                       drop_duplicates(new_data.rows \o existing_df.rows)))

\* variant: rows without a ticker are dropped as well
deduplicated_dropna(combined_df) ==
    Frame(combined_df.cols,
          SelectSeq(drop_duplicates(combined_df.rows),
                    LAMBDA r : r.ticker # NaNStr))

\* the deduplication of update_rolling_data: by (ticker, filedAt descending)
\* when the table has a filedAt column, in row order otherwise
deduplicated(combined_df) ==
    IF "ticker" \in combined_df.cols
    THEN IF "filedAt" \in combined_df.cols
         THEN Frame(combined_df.cols,
                    drop_duplicates(
                        SortedBy(combined_df.rows,
                                 [i \in 1..Len(combined_df.rows) |->
                                     TickerFiledAtKey(combined_df.rows[i])])))
         ELSE Frame(combined_df.cols, drop_duplicates(combined_df.rows))
    ELSE combined_df

update_rolling_data(new_data, file, read_ok) ==
    LET existing_df == load_existing_rolling_data(file, read_ok)
        TickersOf(df) ==
            IF "ticker" \in df.cols
            THEN {df.rows[i].ticker : i \in 1..Len(df.rows)} \ {NaNStr} ELSE {}
        truly_new_tickers == TickersOf(new_data) \ TickersOf(existing_df)
        new_rows == SelectSeq(new_data.rows,
                              LAMBDA r : r.ticker \in truly_new_tickers)
        combined_df ==
            IF truly_new_tickers # {}
            THEN Frame(existing_df.cols \cup new_data.cols,
                       existing_df.rows \o new_rows)
            ELSE existing_df
    IN  IF IsEmpty(new_data) THEN existing_df
        ELSE IF IsEmpty(existing_df) THEN new_data
        ELSE SortedByListDate(deduplicated(combined_df))

\* the columns save_rolling_data keeps, among those the model has
DesiredColumns == {"ticker", "tickers", "name", "filedAt", "polygon_list_date"}

\* save_rolling_data; an exception while writing is swallowed
save_rolling_data(df, file, write_ok) ==
    IF IsEmpty(df) \/ ~write_ok THEN file
    ELSE LET df_filtered == SortedByListDate(Frame(df.cols \cap DesiredColumns, df.rows))
         IN  [exists |-> TRUE,
              cols   |-> df_filtered.cols,
              rows   |-> [i \in 1..Len(df_filtered.rows) |->
                             WriteMergedRow(df_filtered.rows[i])]]

\* run_daily_pipeline, one run in three steps

\* what the filing source may report in the tickers field of a record
FiledTickers ==
    {TickersField("list", items) : items \in {<<>>, <<"AAA">>, <<"BBB">>}}

FiledAts == {1, 2}

Filings ==
    UNION {[1..n -> {MergedRow(NaNStr, t, Num(at), NaNStr, NaN) :
                        t \in FiledTickers, at \in FiledAts}] :
              n \in 0..Cardinality(Tickers)}

\* the run returns: its frames are gone
EndCycle(result) ==
    /\ stage' = "idle"
    /\ outcome' = result
    /\ cycles' = cycles + 1
    /\ sec_filtered_df' = EmptyFrame
    /\ yahoo_df' = EmptyFrame
    /\ final_df' = EmptyFrame

\* get_sec_filings_data, filter_sec_data_by_ticker, get_polygon_finance_data
FetchFilings ==
    /\ stage = "idle"
    /\ cycles < MaxCycles
    /\ \E filings \in Filings, known \in SUBSET Tickers :
          LET sec_df == IF filings = <<>> THEN EmptyFrame
                        ELSE Frame(SecColumns, filings)
              filtered == filter_sec_data_by_ticker(sec_df)
          IN  IF IsEmpty(sec_df) THEN EndCycle("no_filings")
              ELSE IF IsEmpty(filtered) THEN EndCycle("no_tickers")
              ELSE /\ sec_filtered_df' = filtered
                   /\ yahoo_df' = get_polygon_finance_data(filtered, known)
                   /\ stage' = "combine"
                   /\ outcome' = "running"
                   /\ UNCHANGED <<final_df, cycles>>
    /\ UNCHANGED <<rolling_file, storeVars, runVars, updater>>

\* combine_sec_and_yahoo_data, get_polygon_data; a frame without a ticker
\* column raises KeyError in get_polygon_data, which run_daily_pipeline swallows
CombineAndEnrich ==
    /\ stage = "combine"
    /\ \E listed \in {{}, Tickers} :
          LET combined_df == combine_sec_and_yahoo_data(sec_filtered_df, yahoo_df)
          IN  IF IsEmpty(combined_df) THEN EndCycle("nothing_combined")
              ELSE IF "ticker" \notin combined_df.cols THEN EndCycle("raised")
              ELSE /\ final_df' = get_polygon_data(combined_df, listed)
                   /\ stage' = "update"
                   /\ UNCHANGED <<sec_filtered_df, yahoo_df, outcome, cycles>>
    /\ UNCHANGED <<rolling_file, storeVars, runVars, updater>>

\* update_rolling_data, save_rolling_data
UpdateAndSave ==
    /\ stage = "update"
    /\ \E read_ok \in BOOLEAN, write_ok \in BOOLEAN :
          LET updated_rolling_df == update_rolling_data(final_df, rolling_file, read_ok)
          IN  /\ rolling_file' = save_rolling_data(updated_rolling_df, rolling_file, write_ok)
              /\ EndCycle(IF ~write_ok THEN "save_raised"
                          ELSE IF rolling_file.exists /\ ~read_ok
                               THEN "saved_unread"
                          ELSE "saved")
    /\ UNCHANGED <<storeVars, runVars, updater>>

\* an exception leaves run_daily_pipeline: never, every exception raised inside
\* it, those of a failed read or write that load_existing_rolling_data and
\* save_rolling_data have swallowed before included, ends in `except: pass`
run_daily_pipeline_raises(result) == FALSE

\* the exit status of main: 1 when an exception leaves run_daily_pipeline
main(result) == IF run_daily_pipeline_raises(result) THEN 1 ELSE 0

NextMerge == FetchFilings \/ CombineAndEnrich \/ UpdateAndSave

SpecMerge == Init /\ [][NextMerge]_vars

\* Two invocations of run_daily_update on the same store file. Each one
\* discovers its new tickers, fetches their prices, reads the table inside
\* update_csv_with_new_tickers and writes it back; nothing locks the file, so
\* the steps of the two interleave. given[i] holds the locals of invocation i.

Invocations == {1, 2}

Invocation(at, prices, df_existing) ==
    [at |-> at, prices |-> prices, df_existing |-> df_existing]

\* new_tickers and new_ticker_prices of invocation i
OverlapDiscover(i) ==
    /\ op = "overlap"
    /\ given[i].at = "start"
    /\ \E all_tickers \in Feeds :
          LET found == get_new_tickers(csv, all_tickers, TRUE, TRUE)
              prices == fetch_prices_for_tickers(found, [t \in Tickers |-> Quote(1)])
          IN  given' = [given EXCEPT
                           ![i] = Invocation(IF prices = <<>> THEN "done" ELSE "priced",
                                             prices, NoFile)]
    /\ UNCHANGED <<csv, pre, op, ops, runVars, mergeVars>>

\* df_existing = pd.read_csv(self.csv_path) of invocation i
OverlapRead(i) ==
    /\ op = "overlap"
    /\ given[i].at = "priced"
    /\ given' = [given EXCEPT ![i] = Invocation("read", given[i].prices, csv)]
    /\ UNCHANGED <<csv, pre, op, ops, runVars, mergeVars>>

\* df_updated.to_csv(self.csv_path) of invocation i: the table it read, with
\* its new rows
OverlapWrite(i) ==
    /\ op = "overlap"
    /\ given[i].at = "read"
    /\ csv' = update_csv_with_new_tickers(given[i].df_existing, given[i].prices)
    /\ pre' = csv
    /\ given' = [given EXCEPT ![i] = Invocation("done", given[i].prices, NoFile)]
    /\ UNCHANGED <<op, ops, runVars, mergeVars>>

InitOverlap ==
    /\ csv = NoFile
    /\ pre = NoFile
    /\ op = "overlap"
    /\ given = [i \in Invocations |-> Invocation("start", <<>>, NoFile)]
    /\ ops = 0
    /\ InitRun
    /\ InitMerge
    /\ updater = "daily"

NextOverlap ==
    \E i \in Invocations : OverlapDiscover(i) \/ OverlapRead(i) \/ OverlapWrite(i)

SpecOverlap == InitOverlap /\ [][NextOverlap]_vars

\* Rolls of a store that already has a history: one row whose slots are
\* filled from 1DaysAgo_price up to some depth, with prices that may be 0 in
\* the slots the moves are computed from

HistoryDepths == {0, 1, 7, 30, NumSlots}

GivenRows ==
    {[ticker      |-> "AAA",
      lag         |-> [k \in 1..NumSlots |->
                         IF k > depth THEN Blank
                         ELSE IF k \in DOMAIN baseline THEN Num(baseline[k])
                         ELSE Num(25)],
      Today_price |-> Num(today),
      Day_move    |-> Num(0),
      Week_move   |-> Num(0),
      Month_move  |-> Num(0)] :
        depth \in HistoryDepths, today \in Prices,
        baseline \in [{1, 7, 30} -> Prices]}

InitMoves ==
    /\ csv \in {[exists |-> TRUE, rows |-> <<row>>] : row \in GivenRows}
    /\ pre = NoFile
    /\ op = "none"
    /\ given = <<>>
    /\ ops = 0
    /\ InitRun
    /\ InitMerge
    /\ updater = "none"

NextMoves == StoreRoll

SpecMoves == InitMoves /\ [][NextMoves]_vars

\* PolygonPriceFetcher.get_ticker_price and what the price source answers

\* the default of the max_retries parameter
max_retries == 2

\* What one request can come back with: an HTTP 404, another HTTP error
\* status, an exception of the network layer, a body that is not JSON, a JSON
\* body that is not an object, an object without status OK or without
\* 'ticker', a 'ticker' object without 'min' and 'day', one whose 'min' has no
\* 'c' (and no 'day'), a 'c' that is null, a 'c' that is text and not a
\* number, a numeric 'c' under 'min', a numeric 'c' under 'day'.
ResponseKinds ==
    {"http_404", "http_5xx", "network_exception", "non_json", "json_not_object",
     "missing_ticker", "missing_min_day", "missing_c", "c_null", "c_text",
     "min_c", "day_c"}

Response(kind, c) == [kind |-> kind, c |-> c]

Responses == {Response(kind, 25) : kind \in ResponseKinds}

\* the body of the loop for one response: every path returns or raises, none
\* reaches the next iteration
Attempt(response) ==
    CASE response.kind = "http_404"          -> [then |-> "return", price |-> NonePrice]
      [] response.kind = "http_5xx"          -> [then |-> "return", price |-> NonePrice]
      [] response.kind = "network_exception" -> [then |-> "return", price |-> NonePrice]
      [] response.kind = "non_json"          -> [then |-> "return", price |-> NonePrice]
      [] response.kind = "json_not_object"   -> [then |-> "raise",  price |-> NonePrice]
      [] response.kind = "missing_ticker"    -> [then |-> "return", price |-> NonePrice]
      [] response.kind = "missing_min_day"   -> [then |-> "return", price |-> NonePrice]
      [] response.kind = "missing_c"         -> [then |-> "return", price |-> NonePrice]
      [] response.kind = "c_null"            -> [then |-> "raise",  price |-> NonePrice]
      [] response.kind = "c_text"            -> [then |-> "return", price |-> NonePrice]
      [] response.kind = "min_c"             -> [then |-> "return", price |-> response.c]
      [] response.kind = "day_c"             -> [then |-> "return", price |-> response.c]

\* for attempt in range(max_retries): ...; return None
RECURSIVE AttemptLoop(_, _)
AttemptLoop(responses, attempt) ==
    IF attempt > max_retries
    THEN [price |-> NonePrice, raised |-> FALSE, requests |-> max_retries]
    ELSE LET done == Attempt(responses[attempt])
         IN  IF done.then = "return"
             THEN [price |-> done.price, raised |-> FALSE, requests |-> attempt]
             ELSE IF done.then = "raise"
             THEN [price |-> NonePrice, raised |-> TRUE, requests |-> attempt]
             ELSE AttemptLoop(responses, attempt + 1)

\* get_ticker_price, responses[k] being what the k-th request would come back
\* with: the price or None, whether an exception left the call, and the number
\* of requests issued
get_ticker_price(responses) == AttemptLoop(responses, 1)

\* get_ticker_price(ticker) is called alone
PriceCall ==
    /\ op = "none"
    /\ \E responses \in [1..max_retries -> Responses] :
          given' = <<responses, get_ticker_price(responses)>>
    /\ op' = "get_ticker_price"
    /\ UNCHANGED <<csv, pre, ops, runVars, mergeVars>>

\* a first append makes the store
FetchAppend == ~HasFile(csv) /\ op \in {"none", "append_raised"}
               /\ AppendCall(TickerPriceDicts, MaxOps)

\* roll_prices_for_existing_tickers with the price source answering each
\* ticker in its own way, the same on every request; an exception that leaves
\* get_ticker_price leaves fetch_prices_for_tickers and the roll
RollWithResponses ==
    /\ ops < MaxOps
    /\ HasFile(csv)
    /\ \E answers \in [Tickers -> Responses] :
          LET result(t) == get_ticker_price([k \in 1..max_retries |-> answers[t]])
              tickers == TickerColumn(read_csv(csv))
              raised == \E i \in 1..Len(tickers) : result(tickers[i]).raised
              answer == [t \in Tickers |-> result(t).price]
          IN  IF raised
              THEN /\ csv' = csv
                   /\ given' = <<>>
                   /\ op' = "roll_raised"
              ELSE /\ csv' = roll_prices_for_existing_tickers(csv, answer)
                   /\ given' = fetch_prices_for_tickers(tickers, answer)
                   /\ op' = "roll"
    /\ pre' = csv
    /\ ops' = ops + 1
    /\ UNCHANGED <<runVars, mergeVars>>

NextFetch == PriceCall \/ FetchAppend \/ RollWithResponses

SpecFetch == Init /\ [][NextFetch]_vars

\* DailyScriptPuller.get_ticker_info: the wide record of one ticker

\* None, as the answer of a source and as the result of get_ticker_info
NoAnswer == [none |-> TRUE]

\* ticker_fetcher.get_ticker_info(ticker): None or the results object
ReferenceAnswers ==
    {NoAnswer} \cup
    {[name |-> n, primary_exchange |-> x, sic_description |-> "sic",
      market_cap |-> m, description |-> ""] :
        n \in {"", "Co"}, x \in {"", "XNAS"}, m \in {"", "cap"}}

\* snapshot_fetcher.get_ticker_snapshot(ticker): None or the ticker object,
\* which has a 'min' bar, or a 'day' bar, or neither
SnapshotAnswers ==
    {NoAnswer, [bar |-> "neither"]} \cup
    {[bar |-> b, c |-> c, o |-> "open", l |-> "low", h |-> "high"] :
        b \in {"min", "day"}, c \in {"", "close"}}

\* variant: the snapshot bar also gives a name
price_data_naming(snapshot_info) ==
    IF snapshot_info = NoAnswer \/ snapshot_info.bar = "neither"
    THEN <<>>
    ELSE <<<<"current_price", snapshot_info.c>>, <<"open", snapshot_info.o>>,
           <<"day_low", snapshot_info.l>>, <<"day_high", snapshot_info.h>>,
           <<"name", snapshot_info.bar>>>>

\* price_data, as a dict (a sequence of key and value pairs)
price_data(snapshot_info) ==
    IF snapshot_info = NoAnswer \/ snapshot_info.bar = "neither"
    THEN <<>>
    ELSE <<<<"current_price", snapshot_info.c>>, <<"open", snapshot_info.o>>,
           <<"day_low", snapshot_info.l>>, <<"day_high", snapshot_info.h>>>>

\* company_data, as a dict
company_data(ticker_info) ==
    IF ticker_info = NoAnswer
    THEN <<>>
    ELSE <<<<"name", ticker_info.name>>,
           <<"exchange", ticker_info.primary_exchange>>,
           <<"sector", ticker_info.sic_description>>,
           <<"market_cap", ticker_info.market_cap>>,
           <<"business_summary", ticker_info.description>>>>

WideFields ==
    {"name", "exchange", "sector", "market_cap", "business_summary",
     "current_price", "open", "day_low", "day_high"}

\* d.get(key, '')
GetOr(d, key) == IF key \in DictKeys(d) THEN DictGet(d, key) ELSE ""

\* ticker_data: every field is taken from the dict fetched second if it has
\* the field, else from the dict fetched first, else it is ''
ticker_data(first, second) ==
    [f \in WideFields |->
        IF f \in DictKeys(second) THEN DictGet(second, f) ELSE GetOr(first, f)]

\* get_ticker_info for given answers of the two sources, the reference source
\* fetched first or second; None when has_data is false
get_ticker_info(ticker_info, snapshot_info, reference_first) ==
    LET wide == IF reference_first
                THEN ticker_data(company_data(ticker_info), price_data(snapshot_info))
                ELSE ticker_data(price_data(snapshot_info), company_data(ticker_info))
        has_data == \E f \in {"current_price", "name", "market_cap",
                              "business_summary"} : wide[f] # ""
    IN  IF has_data THEN wide ELSE NoAnswer

\* Calls of the functions of DailyScriptPuller on tables given by the caller

TableTickers == {"", "AAA", NaNStr}

TableRows(with_filedAt) ==
    {MergedRow(t, NoTickers, at, NaNStr, NaN) :
        t \in TableTickers,
        at \in IF with_filedAt THEN {NaN, Num(1), Num(2)} ELSE {NaN}}

Tables ==
    UNION {{Frame(IF with_filedAt THEN {"ticker", "filedAt"} ELSE {"ticker"}, rows) :
               rows \in UNION {[1..n -> TableRows(with_filedAt)] : n \in 1..MaxTableRows}} :
           with_filedAt \in BOOLEAN}

\* the caller's table goes through the deduplication of update_rolling_data
DedupCall ==
    /\ stage = "idle"
    /\ \E table \in Tables :
          /\ sec_filtered_df' = table
          /\ final_df' = deduplicated(table)
    /\ stage' = "dedup"
    /\ yahoo_df' = EmptyFrame
    /\ UNCHANGED <<rolling_file, outcome, cycles, storeVars, runVars, updater>>

\* the table the deduplication returned goes through it again
DedupAgain ==
    /\ stage = "dedup"
    /\ sec_filtered_df' = final_df
    /\ final_df' = deduplicated(final_df)
    /\ stage' = "dedup_again"
    /\ UNCHANGED <<rolling_file, yahoo_df, outcome, cycles, storeVars, runVars, updater>>

\* the tickers values a caller may hand to combine_sec_and_yahoo_data
GivenTickers ==
    {TickersField("list", <<>>), TickersField("list", <<"AAA">>),
     TickersField("strlist", <<"AAA">>), TickersField("json", <<"AAA">>),
     TickersField("json", <<>>), TickersField("literal", <<"AAA", "BBB">>),
     TickersField("garbage", <<>>), TickersField("json_string", <<"A", "A", "A">>),
     TickersField("json_number", <<>>), NoTickers}

GivenFilings ==
    UNION {[1..n -> {MergedRow(NaNStr, t, Num(1), NaNStr, NaN) : t \in GivenTickers}] :
              n \in 1..MaxTableRows}

\* combine_sec_and_yahoo_data on the caller's filings and finance rows
CombineCall ==
    /\ stage = "idle"
    /\ \E filings \in GivenFilings, known \in {{}, {"AAA"}} :
          LET sec_df == Frame(SecColumns, filings)
              yahoo  == get_polygon_finance_data(Frame(SecColumns,
                            <<MergedRow(NaNStr, TickersField("list", <<"AAA">>),
                                        Num(1), NaNStr, NaN)>>), known)
          IN  /\ sec_filtered_df' = sec_df
              /\ yahoo_df' = yahoo
              /\ final_df' = combine_sec_and_yahoo_data(sec_df, yahoo)
    /\ stage' = "combined"
    /\ UNCHANGED <<rolling_file, outcome, cycles, storeVars, runVars, updater>>

\* get_ticker_info(ticker), the two sources answering in either order
TickerInfoCall ==
    /\ stage = "idle"
    /\ \E ticker_info \in ReferenceAnswers, snapshot_info \in SnapshotAnswers,
          reference_first \in BOOLEAN :
          given' = [ticker_info |-> ticker_info, snapshot_info |-> snapshot_info,
                    reference_first |-> reference_first,
                    result |-> get_ticker_info(ticker_info, snapshot_info,
                                               reference_first)]
    /\ stage' = "ticker_info"
    /\ op' = "get_ticker_info"
    /\ UNCHANGED <<csv, pre, ops, runVars, rolling_file, sec_filtered_df, yahoo_df,
                   final_df, outcome, cycles>>

NextCalls == DedupCall \/ DedupAgain \/ CombineCall \/ TickerInfoCall

SpecCalls == Init /\ [][NextCalls]_vars

-----------------------------------------------------------------------------
(* recentIPOs.py: the recent-IPO table recentIPOS.csv *)

MaxNewEntries == 2

\* timedelta(days=90)
cutoff_days == 90

\* values of the Symbol column, with and without surrounding blanks
Symbols == {" ", "AAA", " AAA", "BBB"}

\* str.strip()
strip(s) == CASE s = " " -> "" [] s = " AAA" -> "AAA" [] OTHER -> s

\* how many days before today the date written in 'Expected to Trade' lies
DaysAgo == {0, 90, 91}

\* values of 'Expected to Trade': a date written M/D/YYYY ("mdy") or
\* YYYY-MM-DD ("iso"), or the empty string; jan1 is how many days before today
\* the first of January of the written year lies
DateStrings ==
    {[fmt |-> "mdy", days_ago |-> a, jan1 |-> 91] : a \in DaysAgo}
        \cup {[fmt |-> "iso", days_ago |-> 0, jan1 |-> 91],
              [fmt |-> "empty", days_ago |-> 0, jan1 |-> 0]}

DatetimeMax == [kind |-> "max", days_ago |-> 0]

Datetime(days_ago) == [kind |-> "date", days_ago |-> days_ago]

\* parse_date: M/D/YYYY gives its date; for YYYY-MM-DD the third pattern
\* matches, the groups are read as month/day/year, datetime(...) raises
\* ValueError for the month, and the four-digit fallback gives the first of
\* January of the year
parse_date(date_str) ==
    IF date_str.fmt = "empty" THEN DatetimeMax
    ELSE IF date_str.fmt = "mdy" THEN Datetime(date_str.days_ago)
    ELSE Datetime(date_str.jan1)

\* expected_trade_date >= cutoff_date, in half days: the parsed date is a
\* midnight, now is today's midnight (time_of_day 0) or later in the day (1)
NotBeforeCutoff(date, time_of_day) ==
    2 * date.days_ago + time_of_day <= 2 * cutoff_days

\* variant: an entry without a parsable date is dropped
filter_old_entries_dropping_undated(data, time_of_day) ==
    SelectSeq(data, LAMBDA entry :
        LET expected_trade_date == parse_date(entry.expected_to_trade)
        IN  /\ expected_trade_date # DatetimeMax
            /\ NotBeforeCutoff(expected_trade_date, time_of_day))

filter_old_entries(data, time_of_day) ==
    SelectSeq(data, LAMBDA entry :
        LET expected_trade_date == parse_date(entry.expected_to_trade)
        IN  \/ expected_trade_date = DatetimeMax
            \/ NotBeforeCutoff(expected_trade_date, time_of_day))

\* a row of the table; source stands for its other columns
Entries(source) ==
    [Symbol : Symbols, expected_to_trade : DateStrings, source : {source}]

\* the loop `unique_entries[symbol] = entry` over all_entries
RECURSIVE UniqueEntriesLoop(_, _)
UniqueEntriesLoop(all_entries, unique_entries) ==
    IF all_entries = <<>> THEN unique_entries
    ELSE LET entry  == Head(all_entries)
             symbol == strip(entry.Symbol)
         IN  UniqueEntriesLoop(Tail(all_entries),
                 IF symbol # "" THEN DictSet(unique_entries, symbol, entry)
                 ELSE unique_entries)

\* sort(key=parse_date, reverse=True): datetime.max first, then the latest date
SortKey(entry) ==
    LET expected_trade_date == parse_date(entry.expected_to_trade)
    IN  IF expected_trade_date = DatetimeMax THEN 0
        ELSE 1 + expected_trade_date.days_ago

\* save_recent_data: existing_entries is the list of the values of the dict
save_recent_data(new_entries, existing_entries, time_of_day) ==
    LET all_entries == existing_entries \o
                           SelectSeq(new_entries,
                                     LAMBDA entry : strip(entry.Symbol) # "")
        unique_entries == UniqueEntriesLoop(all_entries, <<>>)
        final_entries == [i \in 1..Len(unique_entries) |-> unique_entries[i][2]]
        filtered_entries == filter_old_entries(final_entries, time_of_day)
    IN  [exists |-> TRUE,
         rows   |-> SortedBy(filtered_entries,
                             [i \in 1..Len(filtered_entries) |->
                                 SortKey(filtered_entries[i])])]

NewEntryLists == UNION {[1..n -> Entries("new")] : n \in 0..MaxNewEntries}

\* what load_existing_recent_data returns: rows keyed by their stripped,
\* non-empty Symbol
ExistingEntryLists ==
    {<<>>} \cup {<<entry>> : entry \in {x \in Entries("existing") :
                                            strip(x.Symbol) # ""}}

SaveRecentCall ==
    /\ op = "none"
    /\ \E new_entries \in NewEntryLists, existing_entries \in ExistingEntryLists,
          time_of_day \in {0, 1} :
          /\ given' = [new_entries      |-> new_entries,
                       existing_entries |-> existing_entries,
                       time_of_day      |-> time_of_day]
          /\ csv' = save_recent_data(new_entries, existing_entries, time_of_day)
    /\ op' = "save_recent_data"
    /\ UNCHANGED <<pre, ops, runVars, mergeVars>>

NextRecent == SaveRecentCall

SpecRecent == Init /\ [][NextRecent]_vars

-----
(* Properties *)

RowIndexes == 1..Len(csv.rows)

Fetched(ticker) == ticker \in DictKeys(given)

PresentNonZero(cell) == cell # Blank /\ cell # Num(0)

\* C1: a row that receives a fresh price p is shifted by one: slot k takes the
\* old slot k-1 for k in 2..31, slot 1 takes the old Today_price, Today_price
\* becomes p (the old slot 31 is kept nowhere).
C1_RollShiftsByOne ==
    op = "roll" =>
        /\ Len(csv.rows) = Len(pre.rows)
        /\ \A i \in RowIndexes :
            Fetched(pre.rows[i].ticker) =>
                /\ csv.rows[i].ticker = pre.rows[i].ticker
                /\ \A k \in 2..NumSlots :
                       csv.rows[i].lag[k] = pre.rows[i].lag[k - 1]
                /\ csv.rows[i].lag[1] = pre.rows[i].Today_price
                /\ csv.rows[i].Today_price =
                       Num(DictGet(given, pre.rows[i].ticker))

\* two successive rolls, 0 then 25, of a row appended at 25
C1_Witness ==
    /\ op = "roll"
    /\ \E i \in RowIndexes :
        /\ Fetched(csv.rows[i].ticker)
        /\ csv.rows[i].lag[2] = Num(25)
        /\ csv.rows[i].lag[1] = Num(0)
        /\ csv.rows[i].Today_price = Num(25)
        /\ csv.rows[i].lag[3] = Blank

\* C2: after a roll the stored Week_move of a rolled row is Today_price minus
\* the 7DaysAgo_price of that same row when that slot is present and non-zero,
\* and 0.0 otherwise.
C2_WeekMoveFromStoredSlot7 ==
    op = "roll" =>
        \A i \in RowIndexes :
            Fetched(csv.rows[i].ticker) =>
                csv.rows[i].Week_move =
                    IF PresentNonZero(csv.rows[i].lag[7])
                    THEN Num(csv.rows[i].Today_price.v - csv.rows[i].lag[7].v)
                    ELSE Num(0)

\* C3: after a roll the stored Day_move of a rolled row is Today_price minus
\* the 1DaysAgo_price of that same row when that slot is present and non-zero,
\* and 0.0 otherwise.
C3_DayMoveFromStoredSlot1 ==
    op = "roll" =>
        \A i \in RowIndexes :
            Fetched(csv.rows[i].ticker) =>
                csv.rows[i].Day_move =
                    IF PresentNonZero(csv.rows[i].lag[1])
                    THEN Num(csv.rows[i].Today_price.v - csv.rows[i].lag[1].v)
                    ELSE Num(0)

\* a rolled row with a real delta, and a rolled row whose baseline is zero
C3_Witness ==
    /\ op = "roll"
    /\ \E i, j \in RowIndexes :
        /\ Fetched(csv.rows[i].ticker)
        /\ csv.rows[i].lag[1] = Num(25)
        /\ csv.rows[i].Day_move = Num(0 - 25)
        /\ Fetched(csv.rows[j].ticker)
        /\ csv.rows[j].lag[1] = Num(0)
        /\ csv.rows[j].Today_price = Num(25)

RowsOf(file, ticker) == {i \in 1..Len(file.rows) : file.rows[i].ticker = ticker}

\* C4: update_csv_with_new_tickers given a ticker that already has a row
\* leaves that row unchanged and adds no second row for the ticker.
C4_AppendExistingIsNoOp ==
    op = "append" =>
        \A n \in 1..Len(given) :
            RowsOf(pre, given[n][1]) # {} =>
                /\ \A i \in RowsOf(pre, given[n][1]) : csv.rows[i] = pre.rows[i]
                /\ Cardinality(RowsOf(csv, given[n][1])) =
                       Cardinality(RowsOf(pre, given[n][1]))

\* C5: between sequential runs of run_daily_update, whatever was discovered and
\* whichever fetches and table reads failed, no ticker has two rows.
C5_OneRowPerTicker ==
    pc = "idle" =>
        \A i, j \in RowIndexes :
            i # j => csv.rows[i].ticker # csv.rows[j].ticker

\* C6: a roll leaves every row whose ticker got no fresh price exactly as it
\* was on disk: the 31 slots, Today_price and the three moves.
C6_UnfetchedRowsUnchanged ==
    op = "roll" =>
        /\ Len(csv.rows) = Len(pre.rows)
        /\ \A i \in RowIndexes :
            ~Fetched(pre.rows[i].ticker) => csv.rows[i] = pre.rows[i]

\* a roll in which one ticker got a price and another, already rolled, did not
C6_Witness ==
    /\ op = "roll"
    /\ \E i, j \in RowIndexes :
        /\ Fetched(csv.rows[i].ticker)
        /\ ~Fetched(csv.rows[j].ticker)
        /\ csv.rows[j].lag[1] # Blank

\* C7: update_csv_with_new_tickers adds, for each (ticker, price) given, one
\* row with the 31 slots empty, Today_price = price and the three moves 0, and
\* leaves every row already in the table unchanged.
C7_AppendInsertsFreshRows ==
    op = "append" =>
        /\ Len(csv.rows) = Len(pre.rows) + Len(given)
        /\ \A i \in 1..Len(pre.rows) : csv.rows[i] = pre.rows[i]
        /\ \A n \in 1..Len(given) :
            LET row == csv.rows[Len(pre.rows) + n]
            IN  /\ row.ticker = given[n][1]
                /\ \A k \in 1..NumSlots : row.lag[k] = Blank
                /\ row.Today_price = Num(given[n][2])
                /\ row.Day_move = Num(0)
                /\ row.Week_move = Num(0)
                /\ row.Month_move = Num(0)

\* two tickers appended to a table that already holds a rolled row
C7_Witness ==
    /\ op = "append"
    /\ Len(given) = 2
    /\ Len(pre.rows) > 0
    /\ pre.rows[1].lag[1] # Blank

\* C8: from an empty store, a run that appends one ticker at 12.50 and a next
\* run whose fetch gives 13.00 for it (prices in half dollars: 25 and 26) leave
\* the row with 1DaysAgo_price = 12.50, Today_price = 13.00, Day_move = 0.5,
\* Week_move = 0, Month_move = 0 and the slots 2..31 empty.
C8_TwoRuns ==
    /\ pc = "idle"
    /\ log = <<[appended |-> <<<<"AAA", 25>>>>, rolled |-> <<>>,
                ending |-> "roll_skipped"],
               [appended |-> <<>>, rolled |-> <<<<"AAA", 26>>>>,
                ending |-> "rolled"]>>

C8_EndToEndExample ==
    C8_TwoRuns =>
        csv.rows = <<[ticker      |-> "AAA",
                      lag         |-> [k \in 1..NumSlots |->
                                         IF k = 1 THEN Num(25) ELSE Blank],
                      Today_price |-> Num(26),
                      Day_move    |-> Num(1),
                      Week_move   |-> Num(0),
                      Month_move  |-> Num(0)]>>

C8_Witness == C8_TwoRuns /\ Len(csv.rows) = 1 /\ csv.rows[1].Today_price = Num(26)

\* the rows of the merged table after a run that has written it
Saved == stage = "idle" /\ outcome \in {"saved", "saved_unread"}

\* C9: after a merge cycle the persisted merged table has exactly one row per
\* ticker value: no two of its rows carry the same value in the ticker column.
C9_OneRowPerTickerValue ==
    Saved =>
        \A i, j \in 1..Len(rolling_file.rows) :
            rolling_file.rows[i].ticker = rolling_file.rows[j].ticker => i = j

\* C10: when a run has seen filing rows for a ticker and writes the merged
\* table, the row the written table keeps for that ticker carries a filedAt
\* that is not earlier than the filedAt of any of those filing rows.
LatestFiledAtKept ==
    stage = "update" /\ outcome' \in {"saved", "saved_unread"} =>
        \A i \in 1..Len(sec_filtered_df.rows), k \in 1..Len(rolling_file'.rows) :
            LET filing == sec_filtered_df.rows[i]
                kept   == rolling_file'.rows[k]
            IN  /\ FirstTicker(filing.tickers) # ""
                /\ kept.ticker = FirstTicker(filing.tickers)
                => /\ kept.filedAt.kind = "num"
                   /\ kept.filedAt.v >= filing.filedAt.v

C10_LatestFiledAtKept == [][LatestFiledAtKept]_vars

\* the tickers of the table as update_rolling_data loads it; a blank field is
\* no ticker
LoadedTickers ==
    {rolling_file.rows[i].ticker : i \in 1..Len(rolling_file.rows)} \ {""}

\* a step of update_rolling_data and save_rolling_data on a table that was
\* loaded with rows in it, and written
MergedIntoLoaded ==
    /\ stage = "update"
    /\ outcome' = "saved"
    /\ rolling_file.rows # <<>>

\* C11: when update_rolling_data merges new rows into a non-empty loaded
\* table, every row of the written table is a row of the old table or the
\* written form of a new row whose ticker no loaded row has, and each ticker
\* of the old table keeps exactly one row, equal to its old row field by field.
OnlyNewTickersAppended ==
    MergedIntoLoaded =>
        /\ \A k \in 1..Len(rolling_file'.rows) :
              \/ \E i \in 1..Len(rolling_file.rows) :
                    rolling_file.rows[i] = rolling_file'.rows[k]
              \/ \E j \in 1..Len(final_df.rows) :
                    /\ WriteMergedRow(final_df.rows[j]) = rolling_file'.rows[k]
                    /\ final_df.rows[j].ticker \notin LoadedTickers
        /\ \A i \in 1..Len(rolling_file.rows) :
              rolling_file.rows[i].ticker # "" =>
                  \A k \in 1..Len(rolling_file'.rows) :
                      rolling_file'.rows[k].ticker = rolling_file.rows[i].ticker
                      <=> rolling_file'.rows[k] = rolling_file.rows[i]
        /\ \A t \in LoadedTickers :
              Cardinality({k \in 1..Len(rolling_file'.rows) :
                              rolling_file'.rows[k].ticker = t}) = 1

TickerKept ==
    \A t \in LoadedTickers :
        \E k \in 1..Len(rolling_file'.rows) : rolling_file'.rows[k].ticker = t

C12_TickerNeverDeleted == [][TickerKept]_vars

\* no two rows of the table have the same ticker
OneRowPerTicker(df) ==
    \A i, j \in 1..Len(df.rows) : df.rows[i].ticker = df.rows[j].ticker => i = j

\* the two tables hold the same rows with the same field values
SameRows(a, b) ==
    /\ Len(a.rows) = Len(b.rows)
    /\ SeqSet(a.rows) = SeqSet(b.rows)
    /\ a.cols = b.cols

\* C13: the deduplication applied to a table that has one row per ticker, be
\* it the caller's or the result of an earlier deduplication, returns the same
\* rows with the same field values; and its result has one row per ticker.
C13_DedupIdempotent ==
    /\ stage \in {"dedup", "dedup_again"} => OneRowPerTicker(final_df)
    /\ stage = "dedup" /\ OneRowPerTicker(sec_filtered_df) =>
          SameRows(final_df, sec_filtered_df)
    /\ stage = "dedup_again" => SameRows(final_df, sec_filtered_df)

\* a table that lost duplicates in a first deduplication has gone through a
\* second one and still holds a row without ticker and a row with one
C13_Witness ==
    /\ stage = "dedup_again"
    /\ Len(final_df.rows) = Cardinality(TableTickers)
    /\ "filedAt" \in final_df.cols

\* the canonical ticker of a tickers value: the first element of the decoded
\* list, '' when there is no list or the list is empty
CanonicalTicker(tickers) ==
    IF IsList(tickers) /\ tickers.items # <<>> THEN tickers.items[1] ELSE ""

\* the rows of a combined table that come from the filings
FilingRows(df) == {k \in 1..Len(df.rows) : df.rows[k].filedAt # NaN}

\* C14: in the table combine_sec_and_yahoo_data returns, the ticker of every
\* filing row is the first element of the list its tickers value decodes to,
\* and '' when the value does not decode, decodes to something that is not a
\* list, or decodes to an empty list.
C14_CanonicalTicker ==
    stage = "combined" /\ "ticker" \in final_df.cols =>
        \A k \in FilingRows(final_df) :
            final_df.rows[k].ticker = CanonicalTicker(final_df.rows[k].tickers)

\* C15: every filing row given to combine_sec_and_yahoo_data whose tickers
\* value has no first element is in the returned table, with ticker '': there
\* are as many such rows in the result as in the input.
C15_EmptyTickerRowsKept ==
    stage = "combined" /\ "ticker" \in final_df.cols =>
        Cardinality({k \in FilingRows(final_df) : final_df.rows[k].ticker = ""})
        = Cardinality({i \in 1..Len(sec_filtered_df.rows) :
                          FirstTicker(sec_filtered_df.rows[i].tickers) = ""})

\* the run in progress started with a failed read of a table that has rows:
\* load_existing_tickers gave no ticker although the table holds some, and the
\* run has not written yet
LoadReadFailed ==
    /\ pc \in {"discover", "missing", "fetch_new", "append"}
    /\ csv.rows # <<>>
    /\ existing_tickers_before = <<>>

\* C16: after a failed read of the rolling price table inside
\* load_existing_tickers the run persists nothing: no step of that run changes
\* the table.
NothingPersistedAfterFailedRead == LoadReadFailed => csv' = csv

C16_FailedReadAbortsRun == [][NothingPersistedAfterFailedRead]_vars

\* C17: whatever the price source answers for a ticker, get_ticker_price
\* returns a price or None and no exception leaves it, and no roll is left by
\* an exception of a price lookup.
C17_PerTickerFailuresNeverAbort ==
    /\ op = "get_ticker_price" => ~given[2].raised
    /\ op # "roll_raised"

\* the first request failed with a network exception or a 5xx status
TransientFirst ==
    /\ op = "get_ticker_price"
    /\ given[1][1].kind \in {"network_exception", "http_5xx"}

\* C18: when the first request of get_ticker_price fails with a network
\* exception or a 5xx status a second request is issued, and never more than
\* 2 requests are issued by one call.
C18_SecondAttemptAfterTransientFailure ==
    /\ TransientFirst => given[2].requests = 2
    /\ op = "get_ticker_price" => given[2].requests <= 2

\* C19: for given answers of the reference and the snapshot source, the wide
\* record get_ticker_info builds is the same whichever source is fetched
\* first; its name, exchange and sector are those of the reference record
\* ('' without one) and its current_price, open, day_low and day_high those of
\* the snapshot bar ('' without one).
C19_WideRecordIndependentOfOrder ==
    stage = "ticker_info" =>
        /\ given.result = get_ticker_info(given.ticker_info, given.snapshot_info,
                                          ~given.reference_first)
        /\ given.result # NoAnswer =>
              /\ given.result.name =
                    IF given.ticker_info = NoAnswer THEN "" ELSE given.ticker_info.name
              /\ given.result.exchange =
                    IF given.ticker_info = NoAnswer THEN ""
                    ELSE given.ticker_info.primary_exchange
              /\ given.result.sector =
                    IF given.ticker_info = NoAnswer THEN ""
                    ELSE given.ticker_info.sic_description
              /\ \A f \in {"current_price", "open", "day_low", "day_high"} :
                    given.result[f] = GetOr(price_data(given.snapshot_info), f)

\* both sources answered, the snapshot was fetched first, and a record was built
C19_Witness ==
    /\ stage = "ticker_info"
    /\ ~given.reference_first
    /\ given.ticker_info # NoAnswer
    /\ given.snapshot_info # NoAnswer
    /\ given.result # NoAnswer
    /\ given.result.name = "Co"
    /\ given.result.current_price = "close"

\* C20: the merged table a run has written has every column of the fixed
\* column set, whichever sources answered in the run.
C20_FullColumnSet == Saved => rolling_file.cols = DesiredColumns

\* the run that has just ended
LastRun == log[Len(log)]

\* C21: a ticker appended during a run ends that run with a row whose 31
\* lagged slots are empty and whose Today_price is the price fetched for the
\* append.
C21_AppendedRowNotRolledInSameRun ==
    pc = "idle" /\ Len(log) > 0 =>
        \A n \in 1..Len(LastRun.appended) :
            \E i \in RowIndexes :
                /\ csv.rows[i].ticker = LastRun.appended[n][1]
                /\ csv.rows[i].Today_price = Num(LastRun.appended[n][2])
                /\ \A k \in 1..NumSlots : csv.rows[i].lag[k] = Blank

\* the stages of run_daily_update in their order
StageOrder ==
    <<pc, pc'>> \in
        {<<"idle", "discover">>, <<"discover", "missing">>,
         <<"discover", "fetch_new">>, <<"discover", "roll">>,
         <<"missing", "fetch_new">>, <<"missing", "roll">>,
         <<"fetch_new", "append">>, <<"fetch_new", "roll">>,
         <<"append", "roll">>, <<"append", "idle">>, <<"roll", "idle">>}

\* the run has reached the roll stage without an append, so the table is the
\* one the run started with; the roll stage then runs exactly when that table
\* holds a ticker
RollRunsIffStoreHeldTickers ==
    pc = "roll" /\ new_ticker_prices = <<>> /\ pc' = "idle" =>
        (log'[Len(log')].ending # "roll_skipped" <=> csv.rows # <<>>)

\* C22: the stages of a run occur in the order load existing, discover new,
\* fetch new prices, append new, roll existing; fetch and append are skipped
\* when nothing was discovered or priced, and the roll stage then runs exactly
\* when the store held at least one ticker at the start of the run.
C22_StagesInOrder == [][StageOrder /\ RollRunsIffStoreHeldTickers]_vars

\* C23: with one invocation of run_daily_update at a time, every ticker a run
\* has appended has exactly one row in the store when the run ends (no append
\* is lost and no ticker has two rows).
C23_OneInvocationAtATime ==
    pc = "idle" /\ Len(log) > 0 =>
        \A n \in 1..Len(LastRun.appended) :
            Cardinality({i \in RowIndexes :
                            csv.rows[i].ticker = LastRun.appended[n][1]}) = 1

\* both invocations are over
BothDone == op = "overlap" /\ \A i \in Invocations : given[i].at = "done"

\* the append of an invocation is lost: a ticker it wrote has no row
AppendLost ==
    /\ BothDone
    /\ \E i \in Invocations : \E n \in 1..Len(given[i].prices) :
          \A k \in RowIndexes : csv.rows[k].ticker # given[i].prices[n][1]

\* a ticker has two rows
TwoRows ==
    /\ BothDone
    /\ \E k, m \in RowIndexes : k # m /\ csv.rows[k].ticker = csv.rows[m].ticker

\* the step ends a run that an exception has left
RunAborted ==
    /\ pc # "idle"
    /\ pc' = "idle"
    /\ log'[Len(log')].ending \in {"append_raised", "roll_raised"}

\* the aborted stage has written nothing, so the table is the one the last
\* completed write left; a run aborted in the roll stage keeps the rows it
\* appended, unshifted
AbortKeepsLastWrite ==
    RunAborted =>
        /\ csv' = csv
        /\ log'[Len(log')].rolled = <<>>
        /\ pc = "roll" =>
              \A n \in 1..Len(new_ticker_prices) :
                  \E i \in 1..Len(csv'.rows) :
                      csv'.rows[i] = WriteRow(RowData(new_ticker_prices[n][1],
                                                     new_ticker_prices[n][2]))

NoFinanceData ==
    /\ stage = "combine"
    /\ IsEmpty(yahoo_df)
    /\ \E i \in 1..Len(sec_filtered_df.rows) :
          CanonicalTicker(sec_filtered_df.rows[i].tickers) # ""

\* the run does not end at this step with the merged table as it was
FilingsStillPersisted ==
    NoFinanceData => ~(stage' = "idle" /\ rolling_file' = rolling_file)

\* C26: when a run finds filings with decodable tickers and neither source
\* returns data for any of their tickers, the run goes on and persists the
\* filing rows to the merged table.
C26_FilingsPersistedWithoutFinanceData == [][FilingsStillPersisted]_vars

\* the merged table could not be read or could not be written in the run that
\* has just ended
IoFailure == stage = "idle" /\ outcome \in {"saved_unread", "save_raised"}

\* C27: after a run in which the merged table could not be read by
\* load_existing_rolling_data or written by save_rolling_data, main ends with
\* a nonzero exit status.
C27_IoFailureGivesNonzeroExit == IoFailure => main(outcome) # 0

\* the filled lagged slots of the row are slots 1..n for some n
ContiguousSlots(row) ==
    \A k \in 2..NumSlots : row.lag[k] # Blank => row.lag[k - 1] # Blank

\* C28: in every state of the rolling price store, whatever appends and rolls
\* led to it and whichever fetches failed, the filled lagged slots of each row
\* are next to Today_price without a gap, and Today_price is not empty.
C28_FilledSlotsContiguous ==
    \A i \in RowIndexes :
        /\ ContiguousSlots(csv.rows[i])
        /\ csv.rows[i].Today_price # Blank

\* a roll in which one ticker got no price has left one row with two filled
\* slots beside a row that was shifted less often
C28_Witness ==
    /\ op = "roll"
    /\ \E i, j \in RowIndexes :
          /\ ~Fetched(csv.rows[j].ticker)
          /\ csv.rows[i].lag[2] # Blank
          /\ csv.rows[i].lag[3] = Blank
          /\ csv.rows[j].lag[1] # Blank
          /\ csv.rows[j].lag[2] = Blank

\* the runs that appended the ticker
AppendsOf(ticker) == {m \in 1..Len(log) : ticker \in DictKeys(log[m].appended)}

\* run n discovered the ticker, which no run had appended, and its fetch
\* returned None
FetchFailedIn(n, ticker) ==
    /\ ticker \in SeqSet(log[n].discovered)
    /\ ticker \notin DictKeys(log[n].priced)
    /\ AppendsOf(ticker) \cap 1..(n - 1) = {}

\* C29: a ticker that was discovered as new and whose fetch returned None is
\* not appended by that run, is discovered as new again by every later run
\* until it is appended (it stays in the feed), and once a fetch for it has
\* succeeded it has been appended exactly once, however many runs follow.
C29_FailedTickerRetriedAndAppendedOnce ==
    \A n \in 1..Len(log) :
        FetchFailedIn(n, "AAA") =>
            /\ n \notin AppendsOf("AAA")
            /\ \A m \in (n + 1)..Len(log) :
                  AppendsOf("AAA") \cap 1..(m - 1) = {} =>
                      "AAA" \in SeqSet(log[m].discovered)
            /\ \A m \in (n + 1)..Len(log) :
                  "AAA" \in DictKeys(log[m].priced) =>
                      Cardinality(AppendsOf("AAA")) = 1

\* the rows of the recent-IPO table with the Symbol
RowsWithSymbol(symbol) ==
    {k \in 1..Len(csv.rows) : strip(csv.rows[k].Symbol) = symbol}

\* the entry that stands for the Symbol among those given: the last new entry
\* with it, or the existing one when no new entry has it
EntryFor(symbol) ==
    LET entries == given.existing_entries \o given.new_entries
        last    == CHOOSE i \in 1..Len(entries) :
                       /\ strip(entries[i].Symbol) = symbol
                       /\ \A j \in (i + 1)..Len(entries) :
                              strip(entries[j].Symbol) # symbol
    IN  entries[last]

\* the 'Expected to Trade' of the entry parses to a date more than 90 days
\* before now
TooOld(entry) ==
    LET expected_trade_date == parse_date(entry.expected_to_trade)
    IN  /\ expected_trade_date.kind = "date"
        /\ 2 * expected_trade_date.days_ago + given.time_of_day > 2 * cutoff_days

GivenSymbols ==
    {strip(e.Symbol) : e \in SeqSet(given.existing_entries \o given.new_entries)}
        \ {""}

\* C30: after save_recent_data the table has at most one row per non-empty
\* Symbol and no row without one; for each Symbol given, the row is the new
\* entry when a new and an existing entry share it, and the row is missing
\* exactly when the date of that entry parses to more than 90 days before now
\* (an entry without a parsable date is kept).
C30_RecentTableUniqueAndFresh ==
    op = "save_recent_data" =>
        /\ \A k \in 1..Len(csv.rows) : strip(csv.rows[k].Symbol) \in GivenSymbols
        /\ \A symbol \in GivenSymbols :
              /\ Cardinality(RowsWithSymbol(symbol)) <= 1
              /\ RowsWithSymbol(symbol) = {} <=> TooOld(EntryFor(symbol))
              /\ \A k \in RowsWithSymbol(symbol) : csv.rows[k] = EntryFor(symbol)

\* a new entry dated 90 days before a midnight has replaced the existing entry
\* of its Symbol, and a new entry without a date is kept beside it
C30_Witness ==
    /\ op = "save_recent_data"
    /\ given.time_of_day = 0
    /\ Len(given.existing_entries) = 1
    /\ given.existing_entries[1].Symbol = "AAA"
    /\ Len(given.new_entries) = 2
    /\ given.new_entries[1].Symbol = " AAA"
    /\ given.new_entries[1].expected_to_trade.days_ago = 90
    /\ given.new_entries[2].Symbol = "BBB"
    /\ given.new_entries[2].expected_to_trade.fmt = "empty"
    /\ csv.rows = <<given.new_entries[2], given.new_entries[1]>>

\* a stored price that is empty or 0
NoBaseline(cell) == cell = Blank \/ cell = Num(0)

\* C24: whenever the slot a move is computed from (the previous Today_price
\* for Day_move, the 7-day slot for Week_move, the 30-day slot for Month_move,
\* as the roll finds them) is empty or 0, the roll stores 0 for that move,
\* whatever the fetched price is.
C24_ZeroBaselineGivesZeroMove ==
    op = "roll" =>
        \A i \in RowIndexes :
            Fetched(csv.rows[i].ticker) =>
                /\ NoBaseline(pre.rows[i].Today_price) => csv.rows[i].Day_move = Num(0)
                /\ NoBaseline(pre.rows[i].lag[7]) => csv.rows[i].Week_move = Num(0)
                /\ NoBaseline(pre.rows[i].lag[30]) => csv.rows[i].Month_move = Num(0)

\* a roll with a fetched price other than 0 found 0 in the 7-day and the
\* 30-day slot and a price in Today_price
C24_Witness ==
    /\ op = "roll"
    /\ Fetched("AAA")
    /\ DictGet(given, "AAA") # 0
    /\ pre.rows[1].lag[7] = Num(0)
    /\ pre.rows[1].lag[30] = Num(0)
    /\ pre.rows[1].Today_price = Num(25)
    /\ csv.rows[1].Week_move = Num(0)
    /\ csv.rows[1].Month_move = Num(0)

====
